---- MODULE Spec2Model ----
(***************************************************************************)
(* Model of the kvm2 docker-machine driver (pkg/kvm/kvm.go): the Driver's  *)
(* lifecycle operations over one libvirt domain and one private network.   *)
(* Errors are modelled as wrap chains: the empty sequence is nil, and      *)
(* errors.Wrap(err, msg) puts msg in front of err.                         *)
(***************************************************************************)
EXTENDS Integers, Sequences, FiniteSets, TLC

VARIABLES
    domDefined,   \* the hypervisor has a domain named d.MachineName
    netDefined,   \* the hypervisor has a network named d.PrivateNetwork
    native,       \* the domain's native libvirt state
    IPAddress,    \* d.IPAddress
    pc,           \* position of the single caller inside the running operation
    op,           \* operation the caller invoked
    i,            \* loop counter of Start's and Stop's polling loops
    s,            \* Stop's outer local s
    openConns,    \* libvirt connections opened and not closed
    openHandles,  \* domain/network handles obtained and not freed
    trace,        \* hypervisor/collaborator calls issued by the operation
    calls,        \* counters of the operation's polling calls
    gip,          \* the most recent GetIP call of the operation
    ret,          \* what the last completed operation returned
    walk          \* Create's walk over the store path and its ancestors

vars == <<domDefined, netDefined, native, IPAddress, pc, op, i, s,
          openConns, openHandles, trace, calls, gip, ret, walk>>

\* ---------------------------------------------------------------- bounds
MaxLeak == 1
PathDepth == 3
MaxMode == 511

\* ------------------------------------------------------------- constants
IPWaitLast == 40
StopAttempts == 60
ExecMask == 9

IPs == {"ip1", "ip2"}
LookupOutcomes == IPs \cup {"", "ERR"}

Native == {"nostate", "running", "blocked", "paused", "shutdown",
           "shutoff", "crashed", "pmsuspended", "last"}
NoNative == "n/a"

\* ---------------------------------------------------------------- errors
Nil == <<>>
Wrap(err, msg) == <<msg>> \o err
New(msg) == <<msg>>
Cause(err) == err[Len(err)]

ErrTimeout == New("Machine didn't return an IP after 120 seconds")
ErrNotRunning == New("host is not running")
ErrCouldNotStop == New("Could not stop VM, current state")

\* ------------------------------------------------------ pure helper code
Translate_ShutdownStopped(n) ==
    CASE n \in {"running"} -> "Running"
      [] n \in {"blocked", "crashed"} -> "Error"
      [] n = "paused" -> "Paused"
      [] n \in {"shutoff", "shutdown"} -> "Stopped"
      [] n = "pmsuspended" -> "Saved"
      [] n = "nostate" -> "None"
      [] OTHER -> "None"

Translate(n) ==
    CASE n \in {"running", "shutdown"} -> "Running"
      [] n \in {"blocked", "crashed"} -> "Error"
      [] n = "paused" -> "Paused"
      [] n = "shutoff" -> "Stopped"
      [] n = "pmsuspended" -> "Saved"
      [] n = "nostate" -> "None"
      [] OTHER -> "None"

\* getDomain: open a connection, look the domain up by name.
getDomain(connOK) ==
    IF ~connOK THEN [err |-> New("connect")]
    ELSE IF ~domDefined THEN [err |-> New("not-found")]
    ELSE [err |-> Nil]

GetStateRes_Tolerant(connOK, stOK) ==
    LET g == getDomain(connOK) IN
    IF g.err # Nil
    THEN [st |-> "None", err |-> Nil, native |-> NoNative]
    ELSE IF ~stOK
    THEN [st |-> "None", err |-> Wrap(New("domain-state"), "getting domain state"),
          native |-> NoNative]
    ELSE [st |-> Translate(native), err |-> Nil, native |-> native]

GetStateRes(connOK, stOK) ==
    LET g == getDomain(connOK) IN
    IF g.err # Nil
    THEN [st |-> "None", err |-> Wrap(g.err, "getting connection"), native |-> NoNative]
    ELSE IF ~stOK
    THEN [st |-> "None", err |-> Wrap(New("domain-state"), "getting domain state"),
          native |-> NoNative]
    ELSE [st |-> Translate(native), err |-> Nil, native |-> native]

\* Outcomes of dom.GetState to draw: it is called only on an acquired domain.
StateInputs(connOK) ==
    IF getDomain(connOK).err = Nil THEN BOOLEAN ELSE {TRUE}

\* lookupIP: the address resolver; lk is what it answers when asked.
lookupIP(lk) ==
    IF lk = "ERR" THEN [ip |-> "", err |-> New("lookup-ip")]
    ELSE [ip |-> lk, err |-> Nil]

GetIPRes_ResolveFirst(gs, lk) ==
    LET l == lookupIP(lk) IN
    IF gs.err # Nil
    THEN [called |-> TRUE, st |-> gs.st, ip |-> "", resolved |-> TRUE,
          err |-> Wrap(gs.err, "machine in unknown state")]
    ELSE IF gs.st # "Running"
    THEN [called |-> TRUE, st |-> gs.st, ip |-> "", resolved |-> TRUE,
          err |-> ErrNotRunning]
    ELSE IF l.err # Nil
    THEN [called |-> TRUE, st |-> gs.st, ip |-> "", resolved |-> TRUE,
          err |-> Wrap(l.err, "getting IP")]
    ELSE [called |-> TRUE, st |-> gs.st, ip |-> l.ip, resolved |-> TRUE, err |-> Nil]

GetIPRes(gs, lk) ==
    IF gs.err # Nil
    THEN [called |-> TRUE, st |-> gs.st, ip |-> "", resolved |-> FALSE,
          err |-> Wrap(gs.err, "machine in unknown state")]
    ELSE IF gs.st # "Running"
    THEN [called |-> TRUE, st |-> gs.st, ip |-> "", resolved |-> FALSE,
          err |-> ErrNotRunning]
    ELSE LET l == lookupIP(lk) IN
         IF l.err # Nil
         THEN [called |-> TRUE, st |-> gs.st, ip |-> "", resolved |-> TRUE,
               err |-> Wrap(l.err, "getting IP")]
         ELSE [called |-> TRUE, st |-> gs.st, ip |-> l.ip, resolved |-> TRUE,
               err |-> Nil]

\* Answers of the resolver to draw: they differ only for a domain that
\* GetState reported Running.
ResolverInputs(gs) ==
    IF gs.err = Nil /\ gs.st = "Running" THEN LookupOutcomes ELSE {""}

\* What one turn of Start's IP-wait loop does with GetIP's answer.
StartPollKind_RetryOnError(r) ==
    IF r.err # Nil \/ r.ip = "" THEN "retry" ELSE "found"

StartPollKind_NeverFound(r) ==
    IF r.err # Nil THEN "abort" ELSE "retry"

StartPollKind(r) ==
    IF r.err # Nil THEN "abort"
    ELSE IF r.ip = "" THEN "retry"
    ELSE "found"

StartLoopCond(n) == n <= IPWaitLast

StopLoopCond_OneMore(n) == n <= StopAttempts

StopLoopCond(n) == n < StopAttempts

\* ------------------------------------------------------------ bookkeeping
NoGip == [called |-> FALSE, st |-> "None", ip |-> "", resolved |-> FALSE, err |-> Nil]
ZeroCalls == [getIP |-> 0, sleeps |-> 0, lookupIP |-> 0, polls |-> 0, ip |-> ""]
NoRet == [op |-> "none", err |-> Nil, st |-> "None", native |-> NoNative,
          ip |-> "", connOK |-> FALSE, seen |-> "None"]
Result(o, e) == [NoRet EXCEPT !.op = o, !.err = e]

NoWalk == [left |-> 0, orig |-> 0, mode |-> 0, chmod |-> "none", err |-> Nil]

DriverInit ==
    /\ domDefined = FALSE
    /\ netDefined = FALSE
    /\ native = "nostate"
    /\ IPAddress = ""
    /\ pc = "idle"
    /\ op = "none"
    /\ i = 0
    /\ s = "None"
    /\ openConns = 0
    /\ openHandles = 0
    /\ trace = <<>>
    /\ calls = ZeroCalls
    /\ gip = NoGip
    /\ ret = NoRet

Init ==
    /\ DriverInit
    /\ walk = NoWalk

\* --------------------------------------------------------------- GetState
GetState ==
    /\ pc = "idle"
    /\ \E connOK \in BOOLEAN : \E stOK \in StateInputs(connOK) :
         LET gs == GetStateRes(connOK, stOK) IN
         ret' = [Result("GetState", gs.err) EXCEPT !.st = gs.st, !.native = gs.native,
                                                   !.connOK = connOK]
    /\ op' = "GetState"
    /\ trace' = <<>>
    /\ calls' = ZeroCalls
    /\ gip' = NoGip
    /\ UNCHANGED <<domDefined, netDefined, native, IPAddress, pc, i, s,
                   openConns, openHandles>>
    /\ UNCHANGED walk

\* ------------------------------------------------------------------ GetIP
GetIP ==
    /\ pc = "idle"
    /\ \E connOK \in BOOLEAN : \E stOK \in StateInputs(connOK) :
       \E lk \in ResolverInputs(GetStateRes(connOK, stOK)) :
         LET r == GetIPRes(GetStateRes(connOK, stOK), lk) IN
         /\ gip' = r
         /\ ret' = [Result("GetIP", r.err) EXCEPT !.st = r.st, !.ip = r.ip,
                                                  !.connOK = connOK]
         /\ calls' = [ZeroCalls EXCEPT !.getIP = 1,
                                       !.lookupIP = IF r.resolved THEN 1 ELSE 0]
    /\ op' = "GetIP"
    /\ trace' = <<>>
    /\ UNCHANGED <<domDefined, netDefined, native, IPAddress, pc, i, s,
                   openConns, openHandles>>
    /\ UNCHANGED walk

\* ------------------------------------------------------------------- Kill
Kill_SkipStopped ==
    /\ pc = "idle"
    /\ \E connOK \in BOOLEAN, dOK \in BOOLEAN :
         LET g == getDomain(connOK) IN
         IF g.err # Nil \/ native = "shutoff"
         THEN /\ ret' = [Result("Kill", IF g.err # Nil
                                              THEN Wrap(g.err, "getting connection")
                                              ELSE Nil)
                            EXCEPT !.connOK = connOK]
              /\ trace' = <<>>
              /\ UNCHANGED native
         ELSE /\ trace' = <<"dom.Destroy">>
              /\ native' = IF dOK THEN "shutoff" ELSE native
              /\ ret' = [Result("Kill", IF dOK THEN Nil ELSE New("destroy"))
                            EXCEPT !.connOK = connOK]
    /\ op' = "Kill"
    /\ calls' = ZeroCalls
    /\ gip' = NoGip
    /\ UNCHANGED <<domDefined, netDefined, IPAddress, pc, i, s, openConns, openHandles>>
    /\ UNCHANGED walk

Kill_ClearsIP ==
    /\ pc = "idle"
    /\ \E connOK \in BOOLEAN, dOK \in BOOLEAN :
         LET g == getDomain(connOK) IN
         IF g.err # Nil
         THEN /\ ret' = [Result("Kill", Wrap(g.err, "getting connection"))
                            EXCEPT !.connOK = connOK]
              /\ trace' = <<>>
              /\ UNCHANGED native
         ELSE /\ trace' = <<"dom.Destroy">>
              /\ native' = IF dOK THEN "shutoff" ELSE native
              /\ ret' = [Result("Kill", IF dOK THEN Nil ELSE New("destroy"))
                            EXCEPT !.connOK = connOK]
    /\ op' = "Kill"
    /\ IPAddress' = ""
    /\ calls' = ZeroCalls
    /\ gip' = NoGip
    /\ UNCHANGED <<domDefined, netDefined, pc, i, s, openConns, openHandles>>
    /\ UNCHANGED walk

Kill ==
    /\ pc = "idle"
    /\ \E connOK \in BOOLEAN, dOK \in BOOLEAN :
         LET g == getDomain(connOK) IN
         IF g.err # Nil
         THEN /\ ret' = [Result("Kill", Wrap(g.err, "getting connection"))
                            EXCEPT !.connOK = connOK]
              /\ trace' = <<>>
              /\ UNCHANGED native
         ELSE /\ trace' = <<"dom.Destroy">>
              /\ native' = IF dOK THEN "shutoff" ELSE native
              /\ ret' = [Result("Kill", IF dOK THEN Nil ELSE New("destroy"))
                            EXCEPT !.connOK = connOK]
    /\ op' = "Kill"
    /\ calls' = ZeroCalls
    /\ gip' = NoGip
    /\ UNCHANGED <<domDefined, netDefined, IPAddress, pc, i, s, openConns, openHandles>>
    /\ UNCHANGED walk

\* -------------------------------------------------------- PreCommandCheck
PreCommandCheck ==
    /\ pc = "idle"
    /\ openConns + openHandles < MaxLeak
    /\ \E connOK \in BOOLEAN, verOK \in BOOLEAN :
         IF ~connOK
         THEN /\ ret' = Result("PreCommandCheck", Wrap(New("connect"),
                          "Error connecting to libvirt socket"))
              /\ trace' = <<>>
              /\ UNCHANGED openConns
         ELSE /\ openConns' = openConns + 1
              /\ trace' = <<"conn.GetLibVersion">>
              /\ ret' = [Result("PreCommandCheck",
                           IF verOK THEN Nil
                           ELSE Wrap(New("version"), "getting libvirt version"))
                            EXCEPT !.connOK = TRUE]
    /\ op' = "PreCommandCheck"
    /\ calls' = ZeroCalls
    /\ gip' = NoGip
    /\ UNCHANGED <<domDefined, netDefined, native, IPAddress, pc, i, s, openHandles>>
    /\ UNCHANGED walk

\* ----------------------------------------------------------------- Remove
\* Lookup, Destroy and Undefine of one resource: found tells whether the lookup
\* returned a handle, und whether Undefine succeeded.  Errors are not looked at.
Teardown_UndefineFirst(name, found) ==
    IF found
    THEN <<name \o ".Lookup", name \o ".Undefine", name \o ".Destroy">>
    ELSE <<name \o ".Lookup">>

Teardown(name, found) ==
    IF found
    THEN <<name \o ".Lookup", name \o ".Destroy", name \o ".Undefine">>
    ELSE <<name \o ".Lookup">>

Remove_SurfacesErrors ==
    /\ pc = "idle"
    /\ openConns + openHandles < MaxLeak
    /\ \E connOK \in BOOLEAN :
         IF ~connOK
         THEN /\ ret' = Result("Remove", Wrap(New("connect"), "getting connection"))
              /\ trace' = <<>>
              /\ UNCHANGED <<domDefined, netDefined, native, openHandles>>
         ELSE \E netFound \in {netDefined, FALSE}, domFound \in {domDefined, FALSE} :
              \E nUnd \in {netFound, FALSE}, dDes \in {domFound, FALSE},
                 dUnd \in {domFound, FALSE} :
                 /\ trace' = Teardown("net", netFound) \o Teardown("dom", domFound)
                 /\ netDefined' = IF nUnd THEN FALSE ELSE netDefined
                 /\ domDefined' = IF dUnd THEN FALSE ELSE domDefined
                 /\ native' = IF dUnd THEN "nostate"
                              ELSE IF dDes THEN "shutoff"
                              ELSE native
                 /\ openHandles' = openHandles + (IF netFound THEN 1 ELSE 0)
                                               + (IF domFound THEN 1 ELSE 0)
                 /\ ret' = [Result("Remove",
                              IF (netFound /\ ~nUnd) \/ (domFound /\ ~dUnd)
                              THEN Wrap(New("undefine"), "removing")
                              ELSE Nil) EXCEPT !.connOK = TRUE]
    /\ op' = "Remove"
    /\ calls' = ZeroCalls
    /\ gip' = NoGip
    /\ UNCHANGED <<IPAddress, pc, i, s, openConns>>
    /\ UNCHANGED walk

Remove ==
    /\ pc = "idle"
    /\ openConns + openHandles < MaxLeak
    /\ \E connOK \in BOOLEAN :
         IF ~connOK
         THEN /\ ret' = Result("Remove", Wrap(New("connect"), "getting connection"))
              /\ trace' = <<>>
              /\ UNCHANGED <<domDefined, netDefined, native, openHandles>>
         ELSE \E netFound \in {netDefined, FALSE}, domFound \in {domDefined, FALSE} :
              \E nUnd \in {netFound, FALSE}, dDes \in {domFound, FALSE},
                 dUnd \in {domFound, FALSE} :
                 /\ trace' = Teardown("net", netFound) \o Teardown("dom", domFound)
                 /\ netDefined' = IF nUnd THEN FALSE ELSE netDefined
                 /\ domDefined' = IF dUnd THEN FALSE ELSE domDefined
                 /\ native' = IF dUnd THEN "nostate"
                              ELSE IF dDes THEN "shutoff"
                              ELSE native
                 /\ openHandles' = openHandles + (IF netFound THEN 1 ELSE 0)
                                               + (IF domFound THEN 1 ELSE 0)
                 /\ ret' = [Result("Remove", Nil) EXCEPT !.connOK = TRUE]
    /\ op' = "Remove"
    /\ calls' = ZeroCalls
    /\ gip' = NoGip
    /\ UNCHANGED <<IPAddress, pc, i, s, openConns>>
    /\ UNCHANGED walk

\* ----------------------------------------------------------------- Create
\* The calls of Create in program order, and the first of them that fails.
CreateCalls == <<"createNetwork", "MkdirAll", "Stat", "MakeDiskImage", "createDomain">>
CreateFailures == {"none"} \cup {CreateCalls[k] : k \in 1..Len(CreateCalls)}

\* The steps of Create before Start: the calls made and the error, if any.
CreateSteps(fail) ==
    IF fail = "createNetwork"
    THEN [calls |-> <<"createNetwork">>,
          err |-> Wrap(New("network"), "creating network")]
    ELSE IF fail = "MkdirAll"
    THEN [calls |-> <<"createNetwork", "MkdirAll">>,
          err |-> Wrap(New("mkdir"), "Error making store path directory")]
    ELSE IF fail = "Stat"
    THEN [calls |-> <<"createNetwork", "MkdirAll", "Stat">>, err |-> New("stat")]
    ELSE IF fail = "MakeDiskImage"
    THEN [calls |-> <<"createNetwork", "MkdirAll", "Stat", "MakeDiskImage">>,
          err |-> Wrap(New("disk"), "Error creating disk")]
    ELSE IF fail = "createDomain"
    THEN [calls |-> <<"createNetwork", "MkdirAll", "Stat", "MakeDiskImage",
                      "createDomain">>,
          err |-> Wrap(New("define"), "creating domain")]
    ELSE [calls |-> <<"createNetwork", "MkdirAll", "Stat", "MakeDiskImage",
                      "createDomain", "Start">>,
          err |-> Nil]

\* Create is called on a Machine that has no domain yet.
Create ==
    /\ pc = "idle"
    /\ ~domDefined
    /\ \E fail \in CreateFailures :
         LET c == CreateSteps(fail) IN
         /\ trace' = c.calls
         /\ netDefined' = IF fail # "createNetwork" THEN TRUE ELSE netDefined
         /\ domDefined' = (c.err = Nil)
         /\ native' = IF c.err = Nil THEN "shutoff" ELSE native
         /\ IF c.err # Nil
            THEN /\ ret' = Result("Create", c.err)
                 /\ UNCHANGED <<pc, openHandles>>
            ELSE /\ ret' = NoRet
                 /\ pc' = "start_enter"
                 /\ openHandles' = openHandles + 1
    /\ op' = "Create"
    /\ calls' = ZeroCalls
    /\ gip' = NoGip
    /\ UNCHANGED <<IPAddress, i, s, openConns>>
    /\ UNCHANGED walk

\* ------------------------------------------------------------------ Start
CreateHeld == IF op = "Create" THEN 1 ELSE 0

Start ==
    /\ pc = "idle"
    /\ pc' = "start_enter"
    /\ op' = "Start"
    /\ trace' = <<>>
    /\ calls' = ZeroCalls
    /\ gip' = NoGip
    /\ ret' = NoRet
    /\ UNCHANGED <<domDefined, netDefined, native, IPAddress, i, s,
                   openConns, openHandles>>
    /\ UNCHANGED walk

\* Start returns err; conns/handles are what its deferred calls release.
StartReturn(err, conns, handles) ==
    /\ pc' = "idle"
    /\ i' = 0
    /\ ret' = [Result(op, err) EXCEPT !.ip = calls'.ip]
    /\ openConns' = openConns - conns
    /\ openHandles' = openHandles - handles - CreateHeld

StartEnter ==
    /\ pc = "start_enter"
    /\ UNCHANGED <<domDefined, netDefined, IPAddress, op, s, calls, gip>>
    /\ \E connOK \in BOOLEAN, crOK \in BOOLEAN :
         LET g == getDomain(connOK) IN
         IF g.err # Nil
         THEN /\ StartReturn(Wrap(g.err, "getting connection"), 0, 0)
              /\ UNCHANGED <<trace, native>>
         ELSE /\ trace' = Append(trace, "dom.Create")
              /\ IF crOK
                 THEN /\ native' = "running"
                      /\ pc' = "start_poll"
                      /\ i' = 0
                      /\ openConns' = openConns + 1
                      /\ openHandles' = openHandles + 1
                      /\ UNCHANGED ret
                 ELSE /\ StartReturn(Wrap(New("create"), "Error creating VM"), 0, 0)
                      /\ UNCHANGED native
    /\ UNCHANGED walk

\* The code after the IP-wait loop, up to the SSH wait.
StartAfterLoop(ipaddr) ==
    IF ipaddr = ""
    THEN StartReturn(ErrTimeout, 1, 1)
    ELSE /\ pc' = "start_ssh"
         /\ i' = 0
         /\ UNCHANGED <<ret, openConns, openHandles>>

StartPoll ==
    /\ pc = "start_poll"
    /\ \E connOK \in BOOLEAN : \E stOK \in StateInputs(connOK) :
       \E lk \in ResolverInputs(GetStateRes(connOK, stOK)) :
         LET r == GetIPRes(GetStateRes(connOK, stOK), lk)
             kind == StartPollKind(r)
         IN /\ gip' = r
            /\ calls' = [calls EXCEPT
                           !.getIP = @ + 1,
                           !.lookupIP = @ + (IF r.resolved THEN 1 ELSE 0),
                           !.sleeps = @ + (IF kind = "retry" THEN 1 ELSE 0),
                           !.ip = IF kind = "found" THEN r.ip ELSE @]
            /\ CASE kind = "abort" ->
                      /\ StartReturn(Wrap(r.err, "getting ip during machine start"), 1, 1)
                      /\ UNCHANGED IPAddress
                 [] kind = "retry" ->
                      /\ UNCHANGED IPAddress
                      /\ IF StartLoopCond(i + 1)
                         THEN /\ i' = i + 1
                              /\ UNCHANGED <<pc, ret, openConns, openHandles>>
                         ELSE StartAfterLoop(IPAddress)
                 [] kind = "found" ->
                      /\ IPAddress' = r.ip
                      /\ StartAfterLoop(r.ip)
    /\ UNCHANGED <<domDefined, netDefined, native, op, s, trace>>
    /\ UNCHANGED walk

StartSSH_KeepIP ==
    /\ pc = "start_ssh"
    /\ UNCHANGED <<domDefined, netDefined, native, op, s, calls, gip>>
    /\ trace' = Append(trace, "WaitForSSH")
    /\ \E sshOK \in BOOLEAN :
         /\ StartReturn(IF sshOK THEN Nil
                        ELSE Wrap(New("ssh"), "SSH not available after waiting"), 1, 1)
         /\ UNCHANGED IPAddress
    /\ UNCHANGED walk

StartSSH ==
    /\ pc = "start_ssh"
    /\ UNCHANGED <<domDefined, netDefined, native, op, s, calls, gip>>
    /\ trace' = Append(trace, "WaitForSSH")
    /\ \E sshOK \in BOOLEAN :
         IF sshOK
         THEN /\ StartReturn(Nil, 1, 1)
              /\ UNCHANGED IPAddress
         ELSE /\ IPAddress' = ""
              /\ StartReturn(Wrap(New("ssh"), "SSH not available after waiting"), 1, 1)
    /\ UNCHANGED walk

\* ------------------------------------------------------------------- Stop
\* Stop returns err while its outer s holds st; seen is what its most recent
\* GetState call returned.
StopReturn(err, st, seen, conns, handles) ==
    /\ pc' = "idle"
    /\ i' = 0
    /\ s' = "None"
    /\ ret' = [Result("Stop", err) EXCEPT !.st = st, !.seen = seen]
    /\ openConns' = openConns - conns
    /\ openHandles' = openHandles - handles

Stop ==
    /\ pc = "idle"
    /\ op' = "Stop"
    /\ IPAddress' = ""
    /\ calls' = ZeroCalls
    /\ gip' = NoGip
    /\ \E connOK \in BOOLEAN : \E stOK \in StateInputs(connOK) :
       \E connOK2 \in BOOLEAN, shOK \in BOOLEAN :
         LET gs == GetStateRes(connOK, stOK)
             g == getDomain(connOK2)
         IN IF gs.err # Nil
            THEN /\ StopReturn(Wrap(gs.err, "getting state of VM"), gs.st, gs.st, 0, 0)
                 /\ trace' = <<>>
            ELSE IF gs.st = "Stopped"
            THEN /\ StopReturn(ErrCouldNotStop, gs.st, gs.st, 0, 0)
                 /\ trace' = <<>>
            ELSE IF g.err # Nil
            THEN /\ StopReturn(Wrap(g.err, "getting connection"), gs.st, gs.st, 0, 0)
                 /\ trace' = <<>>
            ELSE IF ~shOK
            THEN /\ StopReturn(Wrap(New("shutdown"), "stopping vm"), gs.st, gs.st, 0, 0)
                 /\ trace' = <<"dom.Shutdown">>
            ELSE /\ pc' = "stop_poll"
                 /\ s' = gs.st
                 /\ i' = 0
                 /\ trace' = <<"dom.Shutdown">>
                 /\ ret' = NoRet
                 /\ openConns' = openConns + 1
                 /\ openHandles' = openHandles + 1
    /\ UNCHANGED <<domDefined, netDefined, native>>
    /\ UNCHANGED walk

StopPoll ==
    /\ pc = "stop_poll"
    /\ \E connOK \in BOOLEAN : \E stOK \in StateInputs(connOK) :
         LET gs == GetStateRes(connOK, stOK) IN
         /\ calls' = [calls EXCEPT
                        !.polls = @ + 1,
                        !.sleeps = @ + (IF gs.err = Nil /\ gs.st # "Stopped"
                                        THEN 1 ELSE 0)]
         /\ IF gs.err # Nil
            THEN StopReturn(Wrap(gs.err, "Error getting state of VM"), s, gs.st, 1, 1)
            ELSE IF gs.st = "Stopped"
            THEN StopReturn(Nil, s, gs.st, 1, 1)
            ELSE IF StopLoopCond(i + 1)
            THEN /\ i' = i + 1
                 /\ UNCHANGED <<pc, s, ret, openConns, openHandles>>
            ELSE StopReturn(ErrCouldNotStop, s, gs.st, 1, 1)
    /\ UNCHANGED <<domDefined, netDefined, native, IPAddress, op, trace, gip>>
    /\ UNCHANGED walk

\* ------------------------------------------------------------ environment
\* The hypervisor moves the domain between native states out of band.
HypervisorChange ==
    /\ domDefined
    /\ \E n \in Native \ {native} : native' = n
    /\ UNCHANGED <<domDefined, netDefined, IPAddress, pc, op, i, s,
                   openConns, openHandles, trace, calls, gip, ret>>
    /\ UNCHANGED walk

Next ==
    \/ GetState
    \/ GetIP
    \/ Kill
    \/ PreCommandCheck
    \/ Remove
    \/ Create
    \/ Start
    \/ StartEnter
    \/ StartPoll
    \/ StartSSH
    \/ Stop
    \/ StopPoll
    \/ HypervisorChange

Spec == Init /\ [][Next]_vars

TypeOK ==
    /\ domDefined \in BOOLEAN
    /\ netDefined \in BOOLEAN
    /\ native \in Native
    /\ IPAddress \in IPs \cup {""}
    /\ pc \in {"idle", "start_enter", "start_poll", "start_ssh", "stop_poll"}
    /\ i \in 0..StopAttempts
    /\ openConns \in Nat
    /\ openHandles \in Nat

\* ------------------------------------------------- Create's directory walk
RECURSIVE BitAnd(_, _)
BitAnd(a, b) ==
    IF a = 0 \/ b = 0 THEN 0
    ELSE (a % 2) * (b % 2) + 2 * BitAnd(a \div 2, b \div 2)

RECURSIVE BitOr(_, _)
BitOr(a, b) ==
    IF a = 0 THEN b
    ELSE IF b = 0 THEN a
    ELSE (IF a % 2 = 1 \/ b % 2 = 1 THEN 1 ELSE 0) + 2 * BitOr(a \div 2, b \div 2)

Modes == 0..MaxMode

\* One turn of the walk on a directory of mode m: whether Chmod is called, and
\* the mode it is called with.
WalkChmod(m) ==
    [call |-> BitAnd(m, ExecMask) # 1, mode |-> BitOr(m, ExecMask)]

InitWalk ==
    /\ DriverInit
    /\ walk = [NoWalk EXCEPT !.left = PathDepth]

\* Stat and, where the test asks for it, Chmod of the next directory; m is the
\* mode Stat reports for it.
WalkVisit ==
    /\ walk.left > 0
    /\ walk.err = Nil
    /\ \E m \in Modes :
         LET c == WalkChmod(m) IN
         \E chmodOK \in (IF c.call THEN BOOLEAN ELSE {TRUE}) :
         walk' = [left |-> walk.left - 1,
                     orig |-> m,
                     mode |-> IF c.call /\ chmodOK THEN c.mode ELSE m,
                     chmod |-> IF ~c.call THEN "none"
                               ELSE IF chmodOK THEN "ok" ELSE "failed",
                     err |-> Nil]
    /\ UNCHANGED <<domDefined, netDefined, native, IPAddress, pc, op, i, s,
                   openConns, openHandles, trace, calls, gip, ret>>

WalkStatFails ==
    /\ walk.left > 0
    /\ walk.err = Nil
    /\ walk' = [walk EXCEPT !.err = New("stat")]
    /\ UNCHANGED <<domDefined, netDefined, native, IPAddress, pc, op, i, s,
                   openConns, openHandles, trace, calls, gip, ret>>

NextWalk ==
    \/ WalkVisit
    \/ WalkStatFails

SpecWalk == InitWalk /\ [][NextWalk]_vars

\* ================================================================ claims
StartOps == {"Start", "Create"}
CallsOf(name) == Cardinality({k \in 1..Len(trace) : trace[k] = name})
IsPrefix(a, b) == Len(a) <= Len(b) /\ \A k \in 1..Len(a) : a[k] = b[k]

\* C1: Stop on a Machine whose domain GetState reports as Stopped returns nil,
\* leaves the recorded IP empty and issues no Shutdown request.
C1_StopOnStopped ==
    (ret.op = "Stop" /\ ret.st = "Stopped") =>
        /\ ret.err = Nil
        /\ IPAddress = ""
        /\ CallsOf("dom.Shutdown") = 0

\* C2: whatever IPAddress held when Start was entered, Start reaches the SSH
\* readiness wait only after a GetIP of this call returned a non-empty IP; an
\* IP-wait loop that ran out of attempts without one ends in the timeout error.
C2_NoSSHWithoutIP ==
    /\ pc = "start_ssh" => calls.ip # ""
    /\ (ret.op \in StartOps /\ calls.getIP > IPWaitLast /\ calls.ip = ""
          /\ gip.err = Nil) => ret.err = ErrTimeout

\* C3: Start's timeout is returned after exactly 40 GetIP attempts, that is
\* after 40 sleeps of 3 seconds.
C3_TimeoutAfter40 ==
    (ret.op \in StartOps /\ ret.err = ErrTimeout) =>
        /\ calls.getIP = 40
        /\ calls.sleeps = 40

\* C4 (as claimed): a GetIP attempt of Start's IP-wait loop that finds the
\* domain not Running never makes Start return an error.
C4_NotRunningIsRetry ==
    (ret.op \in StartOps /\ gip.called /\ gip.err = ErrNotRunning) =>
        ret.err # Wrap(ErrNotRunning, "getting ip during machine start")

\* C4 (amended): in Start's IP-wait loop an empty IP without error makes Start
\* sleep and, while attempts remain, poll again; a GetIP error, which is what
\* GetIP answers whenever the domain is not Running, makes Start return that
\* error wrapped, without sleeping.
C4_EmptyIPIsRetry ==
    [][(pc = "start_poll" /\ calls'.getIP = calls.getIP + 1) =>
          /\ (gip'.err = Nil /\ gip'.ip = "") =>
                /\ calls'.sleeps = calls.sleeps + 1
                /\ i < IPWaitLast => (pc' = "start_poll" /\ i' = i + 1)
          /\ gip'.st # "Running" => gip'.err # Nil
          /\ gip'.err # Nil =>
                /\ pc' = "idle"
                /\ ret'.err = Wrap(gip'.err, "getting ip during machine start")
                /\ calls'.sleeps = calls.sleeps]_vars

C4_Witness ==
    /\ ret.op = "Start"
    /\ calls.sleeps >= 1
    /\ gip.err = ErrNotRunning
    /\ ret.err = Wrap(ErrNotRunning, "getting ip during machine start")

\* C5: when the connection opens Remove returns nil, whether or not the network
\* and the domain exist, and after a Remove that returned nil neither the
\* domain nor the private network is defined.
C5_RemoveIdempotent ==
    ret.op = "Remove" =>
        /\ ret.connOK => ret.err = Nil
        /\ ret.err = Nil => (~domDefined /\ ~netDefined)

\* C6: a GetIP call whose GetState did not translate to Running returns an
\* error and an empty IP without invoking lookupIP; lookupIP is invoked only
\* when the state is Running.
C6_GetIPGuard ==
    gip.called =>
        /\ gip.st # "Running" => (gip.err # Nil /\ gip.ip = "" /\ ~gip.resolved)
        /\ gip.resolved => gip.st = "Running"
        /\ calls.lookupIP <= calls.getIP

C6_Witness ==
    /\ ret.op = "GetIP"
    /\ gip.called
    /\ gip.st = "Paused"
    /\ gip.err = ErrNotRunning
    /\ calls.lookupIP = 0

\* C7: whenever the native state was obtained, GetState returns no error and
\* the state of the mapping table; unrecognized native values give None.
C7_Translation ==
    (ret.op = "GetState" /\ ret.native # NoNative) =>
        /\ ret.err = Nil
        /\ ret.native \in {"running", "shutdown"} => ret.st = "Running"
        /\ ret.native \in {"blocked", "crashed"} => ret.st = "Error"
        /\ ret.native = "paused" => ret.st = "Paused"
        /\ ret.native = "shutoff" => ret.st = "Stopped"
        /\ ret.native = "pmsuspended" => ret.st = "Saved"
        /\ ret.native \notin {"running", "shutdown", "blocked", "crashed", "paused",
                              "shutoff", "pmsuspended"} => ret.st = "None"

C7_Witness ==
    /\ ret.op = "GetState"
    /\ ret.native = "last"
    /\ ret.st = "None"
    /\ ret.err = Nil

\* C8 (as claimed): GetState on a Machine with no domain defined returns None
\* and no error.
C8_GetStateTolerant ==
    (ret.op = "GetState" /\ ret.connOK /\ ~domDefined) =>
        /\ ret.st = "None"
        /\ ret.err = Nil

\* C8 (amended): GetState on a Machine with no domain defined completes and
\* returns None together with the lookup failure wrapped as "getting
\* connection".
C8_GetStateNotFound ==
    (ret.op = "GetState" /\ ret.connOK /\ ~domDefined) =>
        /\ ret.st = "None"
        /\ ret.native = NoNative
        /\ ret.err = Wrap(New("not-found"), "getting connection")

C8_Witness ==
    /\ pc = "idle"
    /\ ret.op = "GetState"
    /\ ret.connOK
    /\ ~domDefined
    /\ Cause(ret.err) = "not-found"

\* C9: a failing Create made its calls in the fixed order and stopped at the
\* failing one, returns that step's error wrapped with the step's description,
\* and leaves the effects of the earlier steps in place.
CreateOrder == CreateCalls \o <<"Start">>
StepDescription ==
    [createNetwork |-> "creating network",
     MkdirAll |-> "Error making store path directory",
     Stat |-> "Error making store path directory",
     MakeDiskImage |-> "Error creating disk",
     createDomain |-> "creating domain"]

C9_CreateSteps ==
    (ret.op = "Create" /\ ret.err # Nil) =>
        /\ IsPrefix(SubSeq(trace, 1, IF Len(trace) < Len(CreateOrder) THEN Len(trace)
                                     ELSE Len(CreateOrder)), CreateOrder)
        /\ CallsOf("Start") = 0 =>
              /\ Len(ret.err) >= 2
              /\ Head(ret.err) = StepDescription[trace[Len(trace)]]
        /\ trace[Len(trace)] = "MakeDiskImage" => CallsOf("createDomain") = 0
        /\ Len(trace) >= 2 => netDefined

\* C10: between operations no connection is open and no handle is unreleased.
C10_AllReleased ==
    pc = "idle" => (openConns = 0 /\ openHandles = 0)

\* C11: a Stop that found the domain not Stopped issues one Shutdown and never
\* a Destroy, polls GetState at most 60 times sleeping 1 second after each poll
\* that did not see Stopped, returns nil exactly when a poll saw Stopped, and
\* returns the "could not stop" error after 60 polls that did not.
C11_StopPolling ==
    op = "Stop" =>
        /\ CallsOf("dom.Shutdown") <= 1
        /\ CallsOf("dom.Destroy") = 0
        /\ calls.polls <= 60
        /\ pc = "stop_poll" =>
              /\ CallsOf("dom.Shutdown") = 1
              /\ calls.polls < 60
              /\ calls.sleeps = calls.polls
        /\ (ret.op = "Stop" /\ calls.polls > 0) =>
              /\ CallsOf("dom.Shutdown") = 1
              /\ ret.err = Nil <=> ret.seen = "Stopped"
              /\ ret.seen = "Stopped" => calls.sleeps = calls.polls - 1
              /\ ret.err = ErrCouldNotStop <=>
                    (calls.polls = 60 /\ calls.sleeps = 60 /\ ret.seen # "Stopped")

C11_Witness ==
    /\ ret.op = "Stop"
    /\ calls.polls = 60
    /\ ret.err = ErrCouldNotStop
    /\ CallsOf("dom.Shutdown") = 1

\* C12: a Start whose SSH readiness wait failed returns the wrapped SSH error
\* and leaves the recorded IP address empty.
C12_SSHFailureClearsIP ==
    (ret.op \in StartOps /\ CallsOf("WaitForSSH") = 1 /\ ret.err # Nil) =>
        /\ ret.err = Wrap(New("ssh"), "SSH not available after waiting")
        /\ IPAddress = ""

C12_Witness ==
    /\ ret.op = "Start"
    /\ calls.ip # ""
    /\ Cause(ret.err) = "ssh"
    /\ IPAddress = ""

\* C13: a Start that returned nil left a non-empty recorded IP, the one a GetIP
\* of this call returned, and went through a successful SSH readiness wait.
C13_StartSuccess ==
    (ret.op \in StartOps /\ ret.err = Nil) =>
        /\ IPAddress # ""
        /\ IPAddress = calls.ip
        /\ CallsOf("WaitForSSH") = 1

\* C14: when GetIP answers an empty IP N times and then an IP, the IP-wait has
\* slept exactly N times, records that IP and goes on to the SSH wait.
C14_FoundAfterN ==
    [][(pc = "start_poll" /\ calls'.getIP = calls.getIP + 1
          /\ gip'.err = Nil /\ gip'.ip # "") =>
          /\ calls.getIP = calls.sleeps
          /\ calls.sleeps <= IPWaitLast
          /\ calls'.sleeps = calls.sleeps
          /\ calls'.ip = gip'.ip
          /\ IPAddress' = gip'.ip
          /\ pc' = "start_ssh"]_vars

C14_Witness ==
    /\ pc = "start_ssh"
    /\ calls.sleeps = 3
    /\ calls.getIP = 4
    /\ IPAddress = "ip2"
    /\ calls.ip = "ip2"

\* C15: the walk visits the store path and every ancestor below the root, and
\* each directory it visited (its Chmod, when called, not failing) has both
\* bits of the mask 0011 set afterwards and every other bit as before.
Visited == walk.left < PathDepth /\ walk.err = Nil

C15_WalkSetsExecute ==
    (Visited /\ walk.chmod # "failed") =>
        /\ BitAnd(walk.mode, ExecMask) = ExecMask
        /\ walk.mode - BitAnd(walk.mode, ExecMask)
              = walk.orig - BitAnd(walk.orig, ExecMask)

\* C16: a Kill that acquired the domain issued exactly one Destroy and nothing
\* else, with no state query and no polling, and returns what Destroy returned;
\* a Kill that could not acquire the domain issued no call at all.
C16_KillDestroysOnce ==
    ret.op = "Kill" =>
        /\ calls = ZeroCalls
        /\ gip = NoGip
        /\ (ret.connOK /\ domDefined) =>
              /\ trace = <<"dom.Destroy">>
              /\ ret.err \in {Nil, New("destroy")}
        /\ ~(ret.connOK /\ domDefined) =>
              /\ trace = <<>>
              /\ ret.err # Nil
              /\ Head(ret.err) = "getting connection"

C16_Witness ==
    /\ ret.op = "Kill"
    /\ native = "shutoff"
    /\ trace = <<"dom.Destroy">>
    /\ ret.err = Nil

\* C17: in Remove each resource's Destroy comes right before its Undefine, all
\* calls on the network come before the domain's lookup, and the domain's
\* lookup is made whatever the network's lookup gave.
Index(name) == CHOOSE k \in 1..Len(trace) : trace[k] = name

C17_RemoveOrder ==
    (ret.op = "Remove" /\ ret.connOK) =>
        /\ \A r \in {"net", "dom"} :
              /\ CallsOf(r \o ".Lookup") = 1
              /\ CallsOf(r \o ".Destroy") = CallsOf(r \o ".Undefine")
              /\ CallsOf(r \o ".Destroy") <= 1
              /\ CallsOf(r \o ".Destroy") = 1 =>
                    /\ Index(r \o ".Destroy") = Index(r \o ".Lookup") + 1
                    /\ Index(r \o ".Undefine") = Index(r \o ".Destroy") + 1
        /\ trace[1] = "net.Lookup"
        /\ \A k \in 1..Len(trace) :
              trace[k] \in {"net.Lookup", "net.Destroy", "net.Undefine"}
                 => k < Index("dom.Lookup")

C17_Witness ==
    /\ ret.op = "Remove"
    /\ netDefined
    /\ trace = <<"net.Lookup", "dom.Lookup", "dom.Destroy", "dom.Undefine">>

\* C18: the state named by Stop's "could not stop" error after 60 polls is the
\* state the last of those polls observed.
C18_StopErrorState ==
    (ret.op = "Stop" /\ ret.err = ErrCouldNotStop /\ calls.polls = 60) =>
        ret.st = ret.seen

\* C19: Remove returns an error exactly when the connection could not be
\* opened; failed lookups and failed Destroy/Undefine calls leave it nil.
C19_RemoveErrors ==
    ret.op = "Remove" =>
        /\ ret.err # Nil <=> ~ret.connOK
        /\ ret.err # Nil => ret.err = Wrap(New("connect"), "getting connection")

C19_Witness ==
    /\ ret.op = "Remove"
    /\ ret.err = Nil
    /\ CallsOf("dom.Undefine") = 1
    /\ CallsOf("net.Lookup") = 1
    /\ CallsOf("net.Undefine") = 0
    /\ domDefined
    /\ netDefined

\* C20: the recorded IP address changes only in steps of Start (also inside
\* Create) and Stop, so GetState, GetIP, Kill, Remove and PreCommandCheck leave
\* it as it was; from the first step of a Stop until the next operation it is
\* empty.
C20_IPFrame ==
    [][/\ IPAddress' # IPAddress => op' \in {"Start", "Create", "Stop"}
       /\ op' = "Stop" => IPAddress' = ""]_vars

C20_Witness ==
    /\ ret.op \in {"Kill", "Remove", "GetIP", "GetState"}
    /\ IPAddress # ""

====
